---- MODULE Spec2Model ----
(***************************************************************************)
(* Replay buffers, DQN / Double-DQN policies and the epoch trainer of the  *)
(* value-based/neural-network experiments.                                 *)
(*                                                                         *)
(* The programs share the module, each with its own specification:         *)
(*   SpecAgent   DQNWithExperienceReplayAgent driving its ExperienceReplay *)
(*   SpecPolicy  DoubleDQNPolicy: gradient updates and the target updater  *)
(*   SpecSoft    one call of DoubleDQNPolicy.soft_update_target            *)
(*   SpecTrain   the epoch trainer with its hooks, collector and buffer    *)
(*   SpecTarget  the target value each variant computes for a transition   *)
(*   SpecCounters  the agent or the policy, for their periodic counters    *)
(*   SpecWrapper FlappyBirdWrapper's reset and step                        *)
(*   SpecSchedule  the exploration-rate schedules                          *)
(* A specification leaves the variables of the other programs untouched.   *)
(*                                                                         *)
(* Real numbers (network parameters, eps, priorities, losses) are exact    *)
(* rationals [n, d] in lowest terms; floating-point rounding is not        *)
(* modelled and all values are finite.                                     *)
(***************************************************************************)
EXTENDS Integers, Sequences, FiniteSets, TLC

VARIABLES
    \* --- DQNWithExperienceReplayAgent (dqn_with_experience_replay.py)
    agent_cfg,       \* [memory_capacity, batch_size, step_per_learn]
    exp_replay,      \* the agent's ExperienceReplay: [data, cursor, count]
    learn_count,     \* self.learn_count
    agent_hist,      \* history: learn calls made, what the last call did
    \* --- DoubleDQNPolicy (double_dqn.py)
    policy_cfg,      \* [target_update_freq, tau, ckpt]
    network,         \* online network parameters, by parameter index
    target_network,  \* target network parameters, by parameter index
    update_count,    \* self.update_count
    policy_hist,     \* history: update calls made, the last operation
    \* --- DQNPolicy with its replay buffer (dqn.py)
    dqn_cfg,         \* [prioritized, buffer_size, batch_size]
    buffer,          \* [data, cursor, count, prio]
    dqn_hist,        \* history: adds and updates made, the last update's calls
    \* --- the trainer and its hooks (dqn.py main, double_dqn.py train_double_dqn)
    train_cfg,       \* the arguments of train
    pc,              \* the trainer's next operation, or how it ended
    epoch,           \* the current epoch, from 1
    step,            \* the current step of the epoch, from 1
    upd,             \* updates made in the current step
    eps,             \* policy.eps
    rew,             \* the last test reward
    best_rew,        \* the best test reward seen
    train_hist,      \* history: snapshots written, whether the loss guard tripped
    \* --- target values of one sampled transition (update / learn / compute_target_q)
    transition,      \* the sampled transition: [act, rew, done]
    gamma,           \* self.gamma
    q_online,        \* self.network(next_obs), by action
    q_target,        \* self.target_network(next_obs), by action
    qval_targ,       \* the last target computed: [op, val]
    \* --- FlappyBirdWrapper (utils/flappybird_wrapper.py)
    stack_num,       \* self.stack_num
    obs,             \* self.obs: the stacked frames, oldest first
    frames,          \* history: the frames captured since construction, in order
    env_hist,        \* history: the last call and its done flag
    \* --- exploration schedules (precollect hooks, NNQAgent.update_eps)
    eps_args,        \* [eps_collect, eps_collect_min, eps_collect_gamma]
    nnq_agent,       \* NNQAgent: [eps_train, eps_min, eps_decay_per_update, eps]
    eps_hist         \* history: the last schedule call, its argument and the eps it set

agentVars == <<agent_cfg, exp_replay, learn_count, agent_hist>>

policyVars == <<policy_cfg, network, target_network, update_count, policy_hist>>

dqnVars == <<dqn_cfg, buffer, dqn_hist>>

trainVars == <<train_cfg, pc, epoch, step, upd, eps, rew, best_rew, train_hist>>

targetVars == <<transition, gamma, q_online, q_target, qval_targ>>

\* the variables added to the four programs above
wrapperVars == <<stack_num, obs, frames, env_hist>>

scheduleVars == <<eps_args, nnq_agent, eps_hist>>

auxVars == <<targetVars, wrapperVars, scheduleVars>>

vars == <<agentVars, policyVars, dqnVars, trainVars, auxVars>>

----------------------------------------------------------------------------
(* Bounds of the model *)

MaxCapacity == 10
MaxBatch == 4
MaxStepPerLearn == 3
MaxLearnCalls == 15
MaxFreq == 3
MaxUpdates == 6
MaxEpochs == 2
MaxAdds == 3
MaxDqnUpdates == 2
MaxStack == 4
MaxCaptures == 5
MaxScheduleEpoch == 5

----------------------------------------------------------------------------
(* Exact rational arithmetic *)

Abs(x) == IF x < 0 THEN -x ELSE x

Min(a, b) == IF a <= b THEN a ELSE b

Max(a, b) == IF a >= b THEN a ELSE b

RECURSIVE GCD(_, _)
GCD(a, b) == IF b = 0 THEN a ELSE GCD(b, a % b)

\* Bind(v, F) is F(v) with v evaluated once
Bind(v, F(_)) == CHOOSE r \in {F(x) : x \in {v}} : TRUE

NormPair(p) ==
    LET s == IF p[2] < 0 THEN -1 ELSE 1
        g == GCD(Abs(p[1]), Abs(p[2]))
    IN  [n |-> (s * p[1]) \div g, d |-> (s * p[2]) \div g]

\* the rational n/d (d # 0) in lowest terms with a positive denominator
Rat(n, d) == Bind(<<n, d>>, NormPair)

RInt(k) == [n |-> k, d |-> 1]
RAdd(a, b) == Bind(<<a, b>>, LAMBDA p : Rat(p[1].n * p[2].d + p[2].n * p[1].d, p[1].d * p[2].d))
RSub(a, b) == Bind(<<a, b>>, LAMBDA p : Rat(p[1].n * p[2].d - p[2].n * p[1].d, p[1].d * p[2].d))
RMul(a, b) == Bind(<<a, b>>, LAMBDA p : Rat(p[1].n * p[2].n, p[1].d * p[2].d))
RLt(a, b) == Bind(<<a, b>>, LAMBDA p : p[1].n * p[2].d < p[2].n * p[1].d)
RLe(a, b) == Bind(<<a, b>>, LAMBDA p : p[1].n * p[2].d <= p[2].n * p[1].d)
RAbs(a) == Bind(a, LAMBDA x : [n |-> Abs(x.n), d |-> x.d])
RDiv(a, b) == Bind(<<a, b>>, LAMBDA p : Rat(p[1].n * p[2].d, p[1].d * p[2].n))

RECURSIVE RSum(_)
RSum(seq) == IF seq = <<>> THEN RInt(0) ELSE RAdd(Head(seq), RSum(Tail(seq)))

RECURSIVE RMinOf(_)
RMinOf(seq) ==
    IF Len(seq) = 1 THEN Head(seq)
    ELSE Bind(RMinOf(Tail(seq)), LAMBDA m : IF RLe(Head(seq), m) THEN Head(seq) ELSE m)

----------------------------------------------------------------------------
(* Replay buffer: a fixed-size circular store with a write cursor and a    *)
(* fill count.  A transition is identified by its insertion number.        *)

NoTransition == -1

\* the priority of a slot on insertion, and the floor under every priority
MaxPriority == RInt(1)

PrioEpsilon == Rat(1, 100)

EmptyBuffer(capacity) ==
    [data |-> [i \in 0..(capacity - 1) |-> NoTransition], cursor |-> 0, count |-> 0]

\* the prioritized buffer also keeps a priority per slot
EmptyPrioritizedBuffer(capacity) ==
    [data |-> [i \in 0..(capacity - 1) |-> NoTransition], cursor |-> 0, count |-> 0,
     prio |-> [i \in 0..(capacity - 1) |-> MaxPriority]]

Capacity(buf) == Cardinality(DOMAIN buf.data)

\* add(transition): insert at the cursor, advance the cursor circularly,
\* increment the fill count up to the capacity
Add(buf, trans) ==
    [buf EXCEPT !.data[buf.cursor] = trans,
                !.cursor = (buf.cursor + 1) % Capacity(buf),
                !.count = Min(buf.count + 1, Capacity(buf))]

\* PrioritizedReplayBuffer.add: the new slot takes the maximum priority
PrioritizedAdd(buf, trans) ==
    [Add(buf, trans) EXCEPT !.prio[buf.cursor] = MaxPriority]

\* can_sample(): the caller's check before sample
CanSample(buf, batch_size) == buf.count >= batch_size

\* uniform sample: batch_size distinct filled slots
UniformBatches(buf, batch_size) ==
    {s \in SUBSET (0..(buf.count - 1)) : Cardinality(s) = batch_size}

Stored(buf) == {buf.data[i] : i \in 0..(buf.count - 1)}

\* prioritized sample: batch_size filled slots, drawn with replacement (every
\* filled slot has a positive probability when its priority is positive)
PrioritizedBatches(buf, batch_size) ==
    {b \in [1..batch_size -> 0..(buf.count - 1)] :
        \A k \in 1..batch_size : RLt(RInt(0), buf.prio[b[k]])}

\* uniform batches in drawing order
UniformOrders(buf, batch_size) ==
    {b \in [1..batch_size -> 0..(buf.count - 1)] :
        \A j, k \in 1..batch_size : j # k => b[j] # b[k]}

\* importance-sampling weights (N * P(i))^(-beta) over the batch maximum, for
\* alpha = beta = 1: the smallest priority of the batch over the slot's own
ISWeights(buf, batch) ==
    Bind(RMinOf([k \in DOMAIN batch |-> buf.prio[batch[k]]]), LAMBDA pmin :
        [k \in DOMAIN batch |-> RDiv(pmin, buf.prio[batch[k]])])

\* update_weight without the absolute value
UpdateWeightSigned(buf, indexes, td_errors) ==
    [buf EXCEPT !.prio = [i \in DOMAIN buf.prio |->
        IF \E k \in DOMAIN indexes : indexes[k] = i
        THEN LET k == CHOOSE k \in DOMAIN indexes :
                        /\ indexes[k] = i
                        /\ \A j \in DOMAIN indexes : indexes[j] = i => j <= k
             IN  RAdd(td_errors[k], PrioEpsilon)
        ELSE buf.prio[i]]]

\* update_weight(indexes, td_errors): priority |td_error| + epsilon at each
\* index, a later entry of the batch overwriting an earlier one
UpdateWeight(buf, indexes, td_errors) ==
    [buf EXCEPT !.prio = [i \in DOMAIN buf.prio |->
        IF \E k \in DOMAIN indexes : indexes[k] = i
        THEN LET k == CHOOSE k \in DOMAIN indexes :
                        /\ indexes[k] = i
                        /\ \A j \in DOMAIN indexes : indexes[j] = i => j <= k
             IN  RAdd(RAbs(td_errors[k]), PrioEpsilon)
        ELSE buf.prio[i]]]

----------------------------------------------------------------------------
(* DQNWithExperienceReplayAgent *)

AgentInit ==
    /\ agent_cfg \in [memory_capacity : 1..MaxCapacity,
                      batch_size      : 1..MaxBatch,
                      step_per_learn  : 1..MaxStepPerLearn]
    /\ exp_replay = EmptyBuffer(agent_cfg.memory_capacity)
    /\ learn_count = 0
    /\ agent_hist = [calls |-> 0, learned |-> 0, sampled |-> 0,
                     sample_fill |-> -1, ret |-> "none", ran |-> FALSE]

\* _do_learn on buffer buf: None without a gradient step when the buffer
\* cannot be sampled, else one sample, one gradient step and the loss
DoLearn(buf, hist) ==
    IF ~CanSample(buf, agent_cfg.batch_size)
    THEN [hist EXCEPT !.ret = "None", !.ran = TRUE]
    ELSE [hist EXCEPT !.ret = "loss", !.ran = TRUE,
                      !.sampled = @ + 1, !.sample_fill = buf.count,
                      !.learned = @ + 1]

\* a variant of learn that stores the transition only when it does not learn
LearnAddAfterReturn ==
    /\ agent_hist.calls < MaxLearnCalls
    /\ LET trans == agent_hist.calls
           hist  == [agent_hist EXCEPT !.calls = @ + 1, !.ret = "None", !.ran = FALSE]
       IN  IF learn_count + 1 >= agent_cfg.step_per_learn
           THEN /\ learn_count' = learn_count + 1 - agent_cfg.step_per_learn
                /\ exp_replay' = exp_replay
                /\ agent_hist' = DoLearn(exp_replay, hist)
           ELSE /\ learn_count' = learn_count + 1
                /\ exp_replay' = Add(exp_replay, trans)
                /\ agent_hist' = hist
    /\ UNCHANGED agent_cfg

\* a variant of learn that compares the counter by > instead of >=
LearnOffByOne ==
    /\ agent_hist.calls < MaxLearnCalls
    /\ LET trans == agent_hist.calls
           buf   == Add(exp_replay, trans)
           hist  == [agent_hist EXCEPT !.calls = @ + 1, !.ret = "None", !.ran = FALSE]
       IN  /\ exp_replay' = buf
           /\ IF learn_count + 1 > agent_cfg.step_per_learn
              THEN /\ learn_count' = learn_count + 1 - agent_cfg.step_per_learn
                   /\ agent_hist' = DoLearn(buf, hist)
              ELSE /\ learn_count' = learn_count + 1
                   /\ agent_hist' = hist
    /\ UNCHANGED agent_cfg

\* learn(episode, obs, act, reward, next_obs, done)
Learn ==
    /\ agent_hist.calls < MaxLearnCalls
    /\ LET trans == agent_hist.calls
           buf   == Add(exp_replay, trans)
           hist  == [agent_hist EXCEPT !.calls = @ + 1, !.ret = "None", !.ran = FALSE]
       IN  /\ exp_replay' = buf
           /\ IF learn_count + 1 >= agent_cfg.step_per_learn
              THEN /\ learn_count' = learn_count + 1 - agent_cfg.step_per_learn
                   /\ agent_hist' = DoLearn(buf, hist)
              ELSE /\ learn_count' = learn_count + 1
                   /\ agent_hist' = hist
    /\ UNCHANGED agent_cfg

\* the agent as it stands in the specifications of the other programs
AgentIdle ==
    /\ agent_cfg = [memory_capacity |-> 1, batch_size |-> 1, step_per_learn |-> 1]
    /\ exp_replay = EmptyBuffer(1)
    /\ learn_count = 0
    /\ agent_hist = [calls |-> 0, learned |-> 0, sampled |-> 0,
                     sample_fill |-> -1, ret |-> "none", ran |-> FALSE]

----------------------------------------------------------------------------
(* DoubleDQNPolicy: online network, target network and the target updater *)

\* the synthetic network has two parameters
ParamIdx == {1, 2}

ParamVals == {RInt(0), RInt(2)}

Half == Rat(1, 2)

One == RInt(1)

\* one parameter of soft_update_target with the two networks exchanged
BlendSwapped(tau, local_param, target_param) ==
    RAdd(RMul(tau, target_param), RMul(RSub(One, tau), local_param))

\* self.tau * local_param.data + (1.0 - self.tau) * target_param.data
Blend(tau, local_param, target_param) ==
    RAdd(RMul(tau, local_param), RMul(RSub(One, tau), target_param))

\* soft_update_target(): the new target parameters, pair by pair
SoftUpdateTarget(tau, net, target) ==
    [i \in ParamIdx |-> Blend(tau, net[i], target[i])]

\* create_policy: two networks, the constructor copies the online parameters
\* into the target; a checkpoint, when given, then overwrites both
PolicyInit ==
    /\ policy_cfg \in [target_update_freq : 1..MaxFreq,
                       tau  : {One, Half},
                       ckpt : BOOLEAN]
    /\ network \in [ParamIdx -> ParamVals]
    /\ IF policy_cfg.ckpt
       THEN target_network \in [ParamIdx -> ParamVals]
       ELSE target_network = network
    /\ update_count = 0
    /\ policy_hist = [updates |-> 0, op |-> "init", fired |-> FALSE, act |-> 0]

\* the gradient step of the base update: the optimizer holds the online
\* network's parameters only, which it may move anywhere
GradientStep(net) == [ParamIdx -> ParamVals]

\* update with the target refreshed on every call
UpdateEveryCall ==
    /\ policy_hist.updates < MaxUpdates
    /\ \E net \in GradientStep(network) :
          /\ network' = net
          /\ update_count' = IF update_count + 1 >= policy_cfg.target_update_freq
                             THEN update_count + 1 - policy_cfg.target_update_freq
                             ELSE update_count + 1
          /\ target_network' = SoftUpdateTarget(policy_cfg.tau, net, target_network)
          /\ policy_hist' = [policy_hist EXCEPT !.updates = @ + 1, !.op = "update",
                                                !.fired = TRUE]
    /\ UNCHANGED policy_cfg

\* update with the counter compared by > instead of >=
UpdateOffByOne ==
    /\ policy_hist.updates < MaxUpdates
    /\ \E net \in GradientStep(network) :
          /\ network' = net
          /\ IF update_count + 1 > policy_cfg.target_update_freq
             THEN /\ update_count' = update_count + 1 - policy_cfg.target_update_freq
                  /\ target_network' =
                        SoftUpdateTarget(policy_cfg.tau, net, target_network)
                  /\ policy_hist' = [policy_hist EXCEPT !.updates = @ + 1,
                                        !.op = "update", !.fired = TRUE]
             ELSE /\ update_count' = update_count + 1
                  /\ target_network' = target_network
                  /\ policy_hist' = [policy_hist EXCEPT !.updates = @ + 1,
                                        !.op = "update", !.fired = FALSE]
    /\ UNCHANGED policy_cfg

\* DoubleDQNPolicy.update(buffer)
Update ==
    /\ policy_hist.updates < MaxUpdates
    /\ \E net \in GradientStep(network) :
          /\ network' = net
          /\ IF update_count + 1 >= policy_cfg.target_update_freq
             THEN /\ update_count' = update_count + 1 - policy_cfg.target_update_freq
                  /\ target_network' =
                        SoftUpdateTarget(policy_cfg.tau, net, target_network)
                  /\ policy_hist' = [policy_hist EXCEPT !.updates = @ + 1,
                                        !.op = "update", !.fired = TRUE]
             ELSE /\ update_count' = update_count + 1
                  /\ target_network' = target_network
                  /\ policy_hist' = [policy_hist EXCEPT !.updates = @ + 1,
                                        !.op = "update", !.fired = FALSE]
    /\ UNCHANGED policy_cfg

Actions == {0, 1}

\* forward(obss): action selection, as a collection or a test step runs it;
\* the values come from the online network, the choice may be random
Forward ==
    /\ \E a \in Actions :
          policy_hist' = [policy_hist EXCEPT !.op = "forward", !.fired = FALSE, !.act = a]
    /\ UNCHANGED <<policy_cfg, network, target_network, update_count>>

\* the policy as it stands in the specifications of the other programs
PolicyIdle ==
    /\ policy_cfg = [target_update_freq |-> 1, tau |-> One, ckpt |-> FALSE]
    /\ network = [i \in ParamIdx |-> RInt(0)]
    /\ target_network = [i \in ParamIdx |-> RInt(0)]
    /\ update_count = 0
    /\ policy_hist = [updates |-> 0, op |-> "init", fired |-> FALSE, act |-> 0]

----------------------------------------------------------------------------
(* One call of soft_update_target on arbitrary networks *)

SoftVals == {RInt(0), RInt(1), RInt(2)}

SoftTaus == {Rat(1, 4), Half, Rat(3, 4), One}

SoftInit ==
    /\ policy_cfg \in [target_update_freq : {1}, tau : SoftTaus, ckpt : {FALSE}]
    /\ network \in [ParamIdx -> SoftVals]
    /\ target_network \in [ParamIdx -> SoftVals]
    /\ update_count = 0
    /\ policy_hist = [updates |-> 0, op |-> "init", fired |-> FALSE, act |-> 0]

\* policy.soft_update_target()
SoftUpdateTargetCall ==
    /\ policy_hist.op = "init"
    /\ target_network' = SoftUpdateTarget(policy_cfg.tau, network, target_network)
    /\ policy_hist' = [policy_hist EXCEPT !.op = "soft", !.fired = TRUE]
    /\ UNCHANGED <<policy_cfg, network, update_count>>

----------------------------------------------------------------------------
(* DQNPolicy.update against a uniform or a prioritized replay buffer *)

TdErrs == {RInt(-2), RInt(0), RInt(1)}

\* the buffer sizes and batch sizes the policy is run with
BufferSizes == {1, 2}

BatchSizes == {1, 2}

TrainBufferSize == CHOOSE c \in BufferSizes : \A x \in BufferSizes : x <= c

\* main: a PrioritizedReplayBuffer when alpha > 0, else a ReplayBuffer
IsPrb(cfg) == cfg.alpha > 0

NoCalls == <<>>

NewBuffer(cfg) ==
    IF IsPrb(cfg) THEN EmptyPrioritizedBuffer(cfg.buffer_size)
    ELSE EmptyBuffer(cfg.buffer_size)

DqnInit ==
    /\ dqn_cfg \in [alpha : {0, 1}, buffer_size : BufferSizes, batch_size : BatchSizes]
    /\ buffer = NewBuffer(dqn_cfg)
    /\ dqn_hist = [adds |-> 0, updates |-> 0, op |-> "init", trace |-> NoCalls,
                   sample_fill |-> -1, loss |-> RInt(0)]

\* the collector stores one transition
BufferAdd(cfg, buf, trans) ==
    IF IsPrb(cfg) THEN PrioritizedAdd(buf, trans) ELSE Add(buf, trans)

\* buffer.sample(): the batches it may return
Batches(cfg, buf) ==
    IF IsPrb(cfg) THEN PrioritizedBatches(buf, cfg.batch_size)
    ELSE UniformOrders(buf, cfg.batch_size)

\* weights = batch.weights if is_prb else 1.0
LossWeights(cfg, buf, batch) ==
    IF IsPrb(cfg) THEN ISWeights(buf, batch) ELSE [k \in DOMAIN batch |-> One]

\* loss = (td_err.pow(2) * weights).mean()
Loss(td_err, weights) ==
    RDiv(RSum([k \in DOMAIN td_err |-> RMul(RMul(td_err[k], td_err[k]), weights[k])]),
         RInt(Len(td_err)))

Call(op, indexes, vals, weights) ==
    [op |-> op, indexes |-> indexes, vals |-> vals, weights |-> weights]

\* update that leaves the importance-sampling weights out of the loss
DqnUpdateUnweighted(cfg, buf, hist, batch, td_err) ==
    LET weights == [k \in DOMAIN batch |-> One]
        sampled == Call("sample", batch, <<>>, LossWeights(cfg, buf, batch))
        stepped == Call("step", batch, td_err, weights)
    IN  [buffer |-> IF IsPrb(cfg) THEN UpdateWeight(buf, batch, td_err) ELSE buf,
         hist   |-> [hist EXCEPT
                       !.updates = @ + 1, !.op = "update", !.sample_fill = buf.count,
                       !.loss = Loss(td_err, weights),
                       !.trace = IF IsPrb(cfg)
                                 THEN << sampled, stepped,
                                         Call("update_weight", batch, td_err, <<>>) >>
                                 ELSE << sampled, stepped >>]]

\* DQNPolicy.update(buffer) on a batch the sample returned, with the TD errors
\* the network gives on it: one sample, one gradient step on the weighted
\* loss, then update_weight when the buffer is prioritized
DqnUpdate(cfg, buf, hist, batch, td_err) ==
    Bind(LossWeights(cfg, buf, batch), LAMBDA weights :
        [buffer |-> IF IsPrb(cfg) THEN UpdateWeight(buf, batch, td_err) ELSE buf,
         hist   |-> [hist EXCEPT
                       !.updates = @ + 1, !.op = "update", !.sample_fill = buf.count,
                       !.loss = Loss(td_err, weights),
                       !.trace = IF IsPrb(cfg)
                                 THEN << Call("sample", batch, <<>>, weights),
                                         Call("step", batch, td_err, weights),
                                         Call("update_weight", batch, td_err, <<>>) >>
                                 ELSE << Call("sample", batch, <<>>, weights),
                                         Call("step", batch, td_err, weights) >>]])

\* DQNPolicy.update(buffer) when the buffer holds fewer than batch_size
\* transitions: sample fails and the error leaves update
DqnUpdateRaised(buf, hist) ==
    [hist EXCEPT !.updates = @ + 1, !.op = "raised", !.sample_fill = buf.count,
                 !.trace = << Call("sample", <<>>, <<>>, <<>>) >>]

\* collector: one transition stored
CollectorAdd ==
    /\ dqn_hist.adds < MaxAdds
    /\ buffer' = BufferAdd(dqn_cfg, buffer, dqn_hist.adds)
    /\ dqn_hist' = [dqn_hist EXCEPT !.adds = @ + 1, !.op = "add"]
    /\ UNCHANGED dqn_cfg

\* policy.update(buffer)
DqnUpdateCall ==
    /\ dqn_hist.updates < MaxDqnUpdates
    /\ IF ~CanSample(buffer, dqn_cfg.batch_size)
       THEN /\ dqn_hist' = DqnUpdateRaised(buffer, dqn_hist)
            /\ buffer' = buffer
       ELSE \E batch \in Batches(dqn_cfg, buffer) :
            \E td_err \in [DOMAIN batch -> TdErrs] :
            \E out \in {DqnUpdate(dqn_cfg, buffer, dqn_hist, batch, td_err)} :
                   /\ buffer' = out.buffer
                   /\ dqn_hist' = out.hist
    /\ UNCHANGED dqn_cfg

\* the policy's buffer as it stands in the specifications of the other programs
DqnIdle ==
    /\ dqn_cfg = [alpha |-> 0, buffer_size |-> 1, batch_size |-> 1]
    /\ buffer = EmptyBuffer(1)
    /\ dqn_hist = [adds |-> 0, updates |-> 0, op |-> "init", trace |-> NoCalls,
                   sample_fill |-> -1, loss |-> RInt(0)]

----------------------------------------------------------------------------
(* The trainer: warmup, then per step collect, update, test, checkpoint *)

Rewards == {0, 1}

\* the TD errors met while training: none, or one large enough for the loss guard
TrainTdErrs == {RInt(-2), RInt(0)}

\* below every reward: the best reward before any test
BestRewInit == -1

EpsCollect == One

EpsCollectMin == Rat(3, 10)

EpsCollectGamma == Half

EpsTest == Rat(1, 100)

\* the steps over which the DQN collection eps decays
EpsDecaySteps == 1000000

RECURSIVE RPow(_, _)
RPow(a, k) == IF k = 0 THEN One ELSE RMul(a, RPow(a, k - 1))

\* precollect: double-DQN decays eps by epoch, DQN linearly by steps, both
\* down to eps_collect_min
PrecollectEps(variant, e, steps) ==
    IF variant = "double_dqn"
    THEN Bind(RMul(EpsCollect, RPow(EpsCollectGamma, e)), LAMBDA x :
              IF RLt(EpsCollectMin, x) THEN x ELSE EpsCollectMin)
    ELSE IF steps <= EpsDecaySteps
         THEN RSub(EpsCollect, RMul(Rat(steps, EpsDecaySteps),
                                    RSub(EpsCollect, EpsCollectMin)))
         ELSE EpsCollectMin

\* preupdate that leaves the collection eps in place
PreupdateEpsKept(old) == old

\* preupdate: policy.eps = 0.0
PreupdateEps(old) == RInt(0)

\* pretest: policy.eps = args.eps_test
PretestEps(old) == EpsTest

\* save that also writes on a reward equal to the best
SaveHookOnEqual(cfg, best, r) ==
    [write |-> ~(r < best),
     cont  |-> IF r < best THEN TRUE
               ELSE IF cfg.variant = "double_dqn" /\ Len(cfg.max_reward) > 0
                    THEN r < cfg.max_reward[1]
                    ELSE TRUE]

\* save that goes on at a reward equal to max_reward
SaveHookInclusive(cfg, best, r) ==
    [write |-> ~(r <= best),
     cont  |-> IF r <= best THEN TRUE
               ELSE IF cfg.variant = "double_dqn" /\ Len(cfg.max_reward) > 0
                    THEN r <= cfg.max_reward[1]
                    ELSE TRUE]

\* save(policy, epoch, best_rew, rew): whether a snapshot is written, and the
\* value returned (False tells the trainer to stop)
SaveHook(cfg, best, r) ==
    [write |-> ~(r <= best),
     cont  |-> IF r <= best THEN TRUE
               ELSE IF cfg.variant = "double_dqn" /\ Len(cfg.max_reward) > 0
                    THEN r < cfg.max_reward[1]
                    ELSE TRUE]

\* the trainer's best reward after a test
BestRew(best, r) == IF r > best THEN r ELSE best

\* the trainer's loss guard
LossTripped(cfg, loss) == Len(cfg.max_loss) > 0 /\ RLt(cfg.max_loss[1], loss)

\* collector.collect(n): n transitions stored, numbered from first
RECURSIVE Collected(_, _, _, _)
Collected(cfg, buf, first, n) ==
    IF n = 0 THEN buf
    ELSE Collected(cfg, BufferAdd(cfg, buf, first), first + 1, n - 1)

TrainInit ==
    /\ dqn_cfg \in [alpha : {0, 1}, buffer_size : {TrainBufferSize},
                    batch_size : BatchSizes]
    /\ buffer = NewBuffer(dqn_cfg)
    /\ dqn_hist = [adds |-> 0, updates |-> 0, op |-> "init", trace |-> NoCalls,
                   sample_fill |-> -1, loss |-> RInt(0)]
    /\ train_cfg \in [variant : {"dqn", "double_dqn"},
                      warmup_size : {0, TrainBufferSize},
                      epochs : {MaxEpochs},
                      step_per_epoch : {1},
                      collect_per_step : {1},
                      update_per_step : {1, 2},
                      max_loss : {<<>>, <<RInt(2)>>},
                      max_reward : {<<>>, <<1>>}]
    /\ train_cfg.variant = "dqn" => train_cfg.max_loss = <<>> /\ train_cfg.max_reward = <<>>
    /\ pc = "warmup"
    /\ epoch = 1
    /\ step = 1
    /\ upd = 0
    /\ eps = RInt(0)
    /\ rew = BestRewInit
    /\ best_rew = BestRewInit
    /\ train_hist = [saves |-> 0, tripped |-> FALSE]

\* WARMUP: the collector fills the buffer with warmup_size transitions
Warmup ==
    /\ pc = "warmup"
    /\ buffer' = Collected(dqn_cfg, buffer, dqn_hist.adds, train_cfg.warmup_size)
    /\ dqn_hist' = [dqn_hist EXCEPT !.adds = @ + train_cfg.warmup_size, !.op = "add"]
    /\ pc' = "precollect"
    /\ UNCHANGED <<dqn_cfg, train_cfg, epoch, step, upd, eps, rew, best_rew, train_hist>>

\* precollect_fn(policy, epoch, steps, updates)
PreCollect ==
    /\ pc = "precollect"
    /\ eps' = PrecollectEps(train_cfg.variant, epoch, dqn_hist.adds)
    /\ pc' = "collect"
    /\ UNCHANGED <<dqnVars, train_cfg, epoch, step, upd, rew, best_rew, train_hist>>

\* COLLECT: collector.collect(collect_per_step)
Collect ==
    /\ pc = "collect"
    /\ buffer' = Collected(dqn_cfg, buffer, dqn_hist.adds, train_cfg.collect_per_step)
    /\ dqn_hist' = [dqn_hist EXCEPT !.adds = @ + train_cfg.collect_per_step,
                                    !.op = "add"]
    /\ pc' = "preupdate"
    /\ UNCHANGED <<dqn_cfg, train_cfg, epoch, step, upd, eps, rew, best_rew, train_hist>>

\* preupdate_fn(policy, epoch, steps, updates)
PreUpdate ==
    /\ pc = "preupdate"
    /\ eps' = PreupdateEps(eps)
    /\ upd' = 0
    /\ pc' = IF train_cfg.update_per_step > 0 THEN "update" ELSE "pretest"
    /\ UNCHANGED <<dqnVars, train_cfg, epoch, step, rew, best_rew, train_hist>>

\* UPDATE: one policy.update(buffer) of the update_per_step; a failed sample
\* ends the run, a loss above max_loss stops the training
UpdateStep ==
    /\ pc = "update"
    /\ IF ~CanSample(buffer, dqn_cfg.batch_size)
       THEN /\ dqn_hist' = DqnUpdateRaised(buffer, dqn_hist)
            /\ buffer' = buffer
            /\ pc' = "failed"
            /\ UNCHANGED <<upd, train_hist>>
       ELSE \E batch \in Batches(dqn_cfg, buffer) :
            \E td_err \in [DOMAIN batch -> TrainTdErrs] :
            \E out \in {DqnUpdate(dqn_cfg, buffer, dqn_hist, batch, td_err)} :
                   /\ buffer' = out.buffer
                   /\ dqn_hist' = out.hist
                   /\ upd' = upd + 1
                   /\ IF LossTripped(train_cfg, out.hist.loss)
                      THEN /\ pc' = "diverged"
                           /\ train_hist' = [train_hist EXCEPT !.tripped = TRUE]
                      ELSE /\ pc' = IF upd + 1 >= train_cfg.update_per_step
                                    THEN "pretest" ELSE "update"
                           /\ train_hist' = train_hist
    /\ UNCHANGED <<dqn_cfg, train_cfg, epoch, step, eps, rew, best_rew>>

\* pretest_fn(policy, epoch, steps, updates)
PreTest ==
    /\ pc = "pretest"
    /\ eps' = PretestEps(eps)
    /\ pc' = "test"
    /\ UNCHANGED <<dqnVars, train_cfg, epoch, step, upd, rew, best_rew, train_hist>>

\* TEST: the tester runs the policy and reports the reward
Test ==
    /\ pc = "test"
    /\ rew' \in Rewards
    /\ pc' = "save"
    /\ UNCHANGED <<dqnVars, train_cfg, epoch, step, upd, eps, best_rew, train_hist>>

\* CHECKPOINT: save_fn(policy, epoch, best_rew, rew), then the best reward;
\* the training goes on to the next step unless the hook returned False
Checkpoint ==
    /\ pc = "save"
    /\ \E saved \in {SaveHook(train_cfg, best_rew, rew)} :
       \E last \in {step >= train_cfg.step_per_epoch} :
           /\ train_hist' = [train_hist EXCEPT
                                !.saves = IF saved.write THEN @ + 1 ELSE @]
           /\ best_rew' = BestRew(best_rew, rew)
           /\ IF ~saved.cont
              THEN /\ pc' = "reached"
                   /\ UNCHANGED <<epoch, step>>
              ELSE /\ step' = IF last THEN 1 ELSE step + 1
                   /\ epoch' = IF last THEN epoch + 1 ELSE epoch
                   /\ pc' = IF last /\ epoch >= train_cfg.epochs
                            THEN "done" ELSE "precollect"
    /\ UNCHANGED <<dqnVars, train_cfg, upd, eps, rew>>

\* the trainer as it stands in the specifications of the other programs
TrainIdle ==
    /\ train_cfg = [variant |-> "dqn", warmup_size |-> 0, epochs |-> 1,
                    step_per_epoch |-> 1, collect_per_step |-> 1,
                    update_per_step |-> 1, max_loss |-> <<>>, max_reward |-> <<>>]
    /\ pc = "idle"
    /\ epoch = 1
    /\ step = 1
    /\ upd = 0
    /\ eps = RInt(0)
    /\ rew = BestRewInit
    /\ best_rew = BestRewInit
    /\ train_hist = [saves |-> 0, tripped |-> FALSE]

TrainStep ==
    \/ Warmup
    \/ PreCollect
    \/ Collect
    \/ PreUpdate
    \/ UpdateStep
    \/ PreTest
    \/ Test
    \/ Checkpoint

Stopped == pc \in {"done", "diverged", "reached", "failed"}

----------------------------------------------------------------------------
(* Target values.  The networks are seen through their values at the       *)
(* transition's next_obs, one value per action.                            *)

TargetRews == {RInt(0), RInt(1), RInt(3)}

QVals == {RInt(0), RInt(1), RInt(2)}

Gammas == {Half, Rat(9, 10)}

NoTarget == [op |-> "none", val |-> RInt(0)]

RMax(a, b) == IF RLe(a, b) THEN b ELSE a

\* q.max(-1)[0]: the largest value over the actions
QMax(q) == RMax(q[0], q[1])

\* q.argmax(-1): the first action holding the largest value
Argmax(q) == CHOOSE a \in Actions : q[a] = QMax(q) /\ \A b \in Actions : b < a => q[b] # QMax(q)

\* qval_targ = rews + (1 - dones) * gamma * qval_max
QvalTarg(rews, dones, g, qval_max) == RAdd(rews, RMul(RMul(RInt(1 - dones), g), qval_max))

\* DQNPolicy.update: rews and dones are both built from batch.acts
DqnPolicyTarget(batch, g, q) == QvalTarg(RInt(batch.act), batch.act, g, QMax(q))

\* DQNWithExperienceReplayAgent._do_learn: batch.reward, batch.done
DoLearnTarget(batch, g, q) == QvalTarg(batch.rew, batch.done, g, QMax(q))

\* RawDQNAgent.learn: reward, np.int(done)
RawLearnTarget(batch, g, q) == QvalTarg(batch.rew, batch.done, g, QMax(q))

\* a double-DQN target that reads the target network's own maximum
ComputeTargetQOwnMax(q_on, q_tg, rews, dones, g) == QvalTarg(rews, dones, g, QMax(q_tg))

\* DoubleDQNPolicy.compute_target_q: the online network picks acts_star, the
\* target network is read at acts_star
ComputeTargetQ(q_on, q_tg, rews, dones, g) == QvalTarg(rews, dones, g, q_tg[Argmax(q_on)])

TargetInit ==
    /\ transition \in [act : Actions, rew : TargetRews, done : {0, 1}]
    /\ gamma \in Gammas
    /\ q_online \in [Actions -> QVals]
    /\ q_target \in [Actions -> QVals]
    /\ qval_targ = NoTarget

TargetIdle ==
    /\ transition = [act |-> 0, rew |-> RInt(0), done |-> 0]
    /\ gamma = Half
    /\ q_online = [a \in Actions |-> RInt(0)]
    /\ q_target = [a \in Actions |-> RInt(0)]
    /\ qval_targ = NoTarget

DqnPolicyTargetCall ==
    /\ qval_targ' = [op |-> "DQNPolicy.update", val |-> DqnPolicyTarget(transition, gamma, q_online)]
    /\ UNCHANGED <<transition, gamma, q_online, q_target>>

DoLearnTargetCall ==
    /\ qval_targ' = [op |-> "_do_learn", val |-> DoLearnTarget(transition, gamma, q_online)]
    /\ UNCHANGED <<transition, gamma, q_online, q_target>>

RawLearnTargetCall ==
    /\ qval_targ' = [op |-> "RawDQNAgent.learn", val |-> RawLearnTarget(transition, gamma, q_online)]
    /\ UNCHANGED <<transition, gamma, q_online, q_target>>

ComputeTargetQCall ==
    /\ qval_targ' = [op |-> "compute_target_q",
                     val |-> ComputeTargetQ(q_online, q_target, transition.rew, transition.done, gamma)]
    /\ UNCHANGED <<transition, gamma, q_online, q_target>>

----------------------------------------------------------------------------
(* FlappyBirdWrapper: the observation is a stack of the latest frames.  A   *)
(* frame is identified by the value preprocess gives the captured screen.  *)

EmptyFrame == 0

\* what a preprocessed screen can be; a black screen equals the empty frame
Frames == {0, 1, 2}

\* np.stack((empty_frame,) * stack_num)
EmptyStack(n) == [i \in 1..n |-> EmptyFrame]

\* _get_obs: np.concatenate((self.obs[1:], obs))
GetObs(stack, frame) == Tail(stack) \o <<frame>>

WrapperInit ==
    /\ stack_num \in 1..MaxStack
    /\ obs = EmptyStack(stack_num)
    /\ frames = <<>>
    /\ env_hist = [op |-> "init", done |-> FALSE]

WrapperIdle ==
    /\ stack_num = 1
    /\ obs = EmptyStack(1)
    /\ frames = <<>>
    /\ env_hist = [op |-> "init", done |-> FALSE]

\* a reset that starts the episode from an empty stack
ResetClearing ==
    /\ Len(frames) < MaxCaptures
    /\ \E frame \in Frames :
          /\ obs' = GetObs(EmptyStack(stack_num), frame)
          /\ frames' = Append(frames, frame)
    /\ env_hist' = [op |-> "reset", done |-> FALSE]
    /\ UNCHANGED stack_num

\* reset(): reset_game, then _get_obs
Reset ==
    /\ Len(frames) < MaxCaptures
    /\ \E frame \in Frames :
          /\ obs' = GetObs(obs, frame)
          /\ frames' = Append(frames, frame)
    /\ env_hist' = [op |-> "reset", done |-> FALSE]
    /\ UNCHANGED stack_num

\* step(action): act, then _get_obs, then game_over
Step ==
    /\ Len(frames) < MaxCaptures
    /\ \E action \in Actions, frame \in Frames, done \in BOOLEAN :
          /\ obs' = GetObs(obs, frame)
          /\ frames' = Append(frames, frame)
          /\ env_hist' = [op |-> "step", done |-> done]
    /\ UNCHANGED stack_num

----------------------------------------------------------------------------
(* Exploration schedules: the precollect hooks of the two trainers and     *)
(* NNQAgent.update_eps, on their own arguments.                            *)

\* total_train_episode of train_test_eval
TotalEpisodes == {4, 1000}

\* train_test_eval runs episode over range(1, total_train_episode)
Episodes(total_episode) == {1, total_episode \div 2, total_episode - 1}

\* step counts the trainer can hand to precollect, around the end of the decay
StepCounts == {0, 1, 500000, EpsDecaySteps, EpsDecaySteps + 1}

\* double_dqn.py precollect: eps_collect * eps_collect_gamma ** epoch, not below
\* eps_collect_min
DoubleDqnPrecollect(args, e) ==
    Bind(RMul(args.eps_collect, RPow(args.eps_collect_gamma, e)), LAMBDA x :
         IF RLt(args.eps_collect_min, x) THEN x ELSE args.eps_collect_min)

\* dqn.py precollect: linear from eps_collect to eps_collect_min over the first
\* 1e6 steps, eps_collect_min afterwards
DqnPrecollect(args, steps) ==
    IF steps <= EpsDecaySteps
    THEN RSub(args.eps_collect, RMul(Rat(steps, EpsDecaySteps),
                                     RSub(args.eps_collect, args.eps_collect_min)))
    ELSE args.eps_collect_min

\* NNQAgent.update_eps: linear from eps_train to eps_min over the episodes, then
\* multiplied by eps_decay_per_update
UpdateEps(agent, episode, total_episode) ==
    RMul(RSub(agent.eps_train, RMul(RSub(agent.eps_train, agent.eps_min),
                                    Rat(episode, total_episode))),
         agent.eps_decay_per_update)

NoSchedule == [op |-> "none", arg |-> <<>>, eps |-> RInt(0)]

\* the collection rate starts at or above its minimum
ScheduleInit ==
    /\ eps_args \in {a \in [eps_collect       : {One, Half},
                             eps_collect_min   : {Rat(1, 10), Rat(3, 10), Half},
                             eps_collect_gamma : {Half, Rat(9, 10)}] :
                        RLe(a.eps_collect_min, a.eps_collect)}
    /\ nnq_agent \in {a \in [eps_train            : {Rat(9, 10), Half},
                              eps_min              : {Rat(1, 10), Half},
                              eps_decay_per_update : {Rat(99, 100), One},
                              eps                  : {Rat(9, 10), Half}] :
                         a.eps = a.eps_train /\ RLe(a.eps_min, a.eps_train)}
    /\ eps_hist = NoSchedule

ScheduleIdle ==
    /\ eps_args = [eps_collect |-> One, eps_collect_min |-> Rat(1, 10),
                   eps_collect_gamma |-> Half]
    /\ nnq_agent = [eps_train |-> Rat(9, 10), eps_min |-> Rat(1, 10),
                    eps_decay_per_update |-> Rat(99, 100), eps |-> Rat(9, 10)]
    /\ eps_hist = NoSchedule

DoubleDqnPrecollectCall ==
    /\ \E e \in 0..MaxScheduleEpoch :
          eps_hist' = [op |-> "double_dqn.precollect", arg |-> <<e>>,
                       eps |-> DoubleDqnPrecollect(eps_args, e)]
    /\ UNCHANGED <<eps_args, nnq_agent>>

DqnPrecollectCall ==
    /\ \E steps \in StepCounts :
          eps_hist' = [op |-> "dqn.precollect", arg |-> <<steps>>,
                       eps |-> DqnPrecollect(eps_args, steps)]
    /\ UNCHANGED <<eps_args, nnq_agent>>

UpdateEpsCall ==
    /\ \E total_episode \in TotalEpisodes :
          \E episode \in Episodes(total_episode) :
             \E out \in {UpdateEps(nnq_agent, episode, total_episode)} :
                /\ nnq_agent' = [nnq_agent EXCEPT !.eps = out]
                /\ eps_hist' = [op |-> "update_eps", arg |-> <<episode, total_episode>>,
                                eps |-> out]
    /\ UNCHANGED eps_args

\* the variables added to the four programs stay as constructed
AuxIdle == TargetIdle /\ WrapperIdle /\ ScheduleIdle

----------------------------------------------------------------------------
(* Specifications *)

InitAgent == AgentInit /\ PolicyIdle /\ DqnIdle /\ TrainIdle /\ AuxIdle

NextAgent == Learn /\ UNCHANGED <<policyVars, dqnVars, trainVars, auxVars>>

SpecAgent == InitAgent /\ [][NextAgent]_vars

InitPolicy == PolicyInit /\ AgentIdle /\ DqnIdle /\ TrainIdle /\ AuxIdle

NextPolicy ==
    \/ Update /\ UNCHANGED <<agentVars, dqnVars, trainVars, auxVars>>
    \/ Forward /\ UNCHANGED <<agentVars, dqnVars, trainVars, auxVars>>

SpecPolicy == InitPolicy /\ [][NextPolicy]_vars

InitSoft == SoftInit /\ AgentIdle /\ DqnIdle /\ TrainIdle /\ AuxIdle

NextSoft == SoftUpdateTargetCall /\ UNCHANGED <<agentVars, dqnVars, trainVars, auxVars>>

SpecSoft == InitSoft /\ [][NextSoft]_vars

InitDqn == DqnInit /\ AgentIdle /\ PolicyIdle /\ TrainIdle /\ AuxIdle

NextDqn ==
    \/ CollectorAdd /\ UNCHANGED <<agentVars, policyVars, trainVars, auxVars>>
    \/ DqnUpdateCall /\ UNCHANGED <<agentVars, policyVars, trainVars, auxVars>>

SpecDqn == InitDqn /\ [][NextDqn]_vars

InitTrain == TrainInit /\ AgentIdle /\ PolicyIdle /\ AuxIdle

NextTrain == TrainStep /\ UNCHANGED <<agentVars, policyVars, auxVars>>

SpecTrain == InitTrain /\ [][NextTrain]_vars

\* the trainer is one sequential loop: it takes its next step whenever it has one
SpecTrainFair == SpecTrain /\ WF_vars(NextTrain)

\* the agent's script and the policy's script are separate programs: a
\* behaviour runs one of them, the other stays as constructed
InitCounters == InitAgent \/ InitPolicy

NextCounters ==
    \/ PolicyIdle /\ NextAgent
    \/ AgentIdle /\ NextPolicy

SpecCounters == InitCounters /\ [][NextCounters]_vars

InitTarget == TargetInit /\ WrapperIdle /\ ScheduleIdle /\ AgentIdle /\ PolicyIdle /\ DqnIdle /\ TrainIdle

NextTarget ==
    \/ DqnPolicyTargetCall /\ UNCHANGED <<agentVars, policyVars, dqnVars, trainVars, wrapperVars, scheduleVars>>
    \/ DoLearnTargetCall /\ UNCHANGED <<agentVars, policyVars, dqnVars, trainVars, wrapperVars, scheduleVars>>
    \/ RawLearnTargetCall /\ UNCHANGED <<agentVars, policyVars, dqnVars, trainVars, wrapperVars, scheduleVars>>
    \/ ComputeTargetQCall /\ UNCHANGED <<agentVars, policyVars, dqnVars, trainVars, wrapperVars, scheduleVars>>

SpecTarget == InitTarget /\ [][NextTarget]_vars

InitWrapper == WrapperInit /\ TargetIdle /\ ScheduleIdle /\ AgentIdle /\ PolicyIdle /\ DqnIdle /\ TrainIdle

NextWrapper ==
    \/ Reset /\ UNCHANGED <<agentVars, policyVars, dqnVars, trainVars, targetVars, scheduleVars>>
    \/ Step /\ UNCHANGED <<agentVars, policyVars, dqnVars, trainVars, targetVars, scheduleVars>>

SpecWrapper == InitWrapper /\ [][NextWrapper]_vars

InitSchedule ==
    ScheduleInit /\ TargetIdle /\ WrapperIdle /\ AgentIdle /\ PolicyIdle /\ DqnIdle /\ TrainIdle

NextSchedule ==
    \/ DoubleDqnPrecollectCall
          /\ UNCHANGED <<agentVars, policyVars, dqnVars, trainVars, targetVars, wrapperVars>>
    \/ DqnPrecollectCall
          /\ UNCHANGED <<agentVars, policyVars, dqnVars, trainVars, targetVars, wrapperVars>>
    \/ UpdateEpsCall
          /\ UNCHANGED <<agentVars, policyVars, dqnVars, trainVars, targetVars, wrapperVars>>

SpecSchedule == InitSchedule /\ [][NextSchedule]_vars

----------------------------------------------------------------------------
\* C1: after N add calls on a buffer of capacity C the fill count is
\* min(N, C), the write cursor is N mod C and the stored transitions are
\* exactly the newest min(N, C) inserted ones (insertions N - min(N, C) .. N - 1).
C1_NewestRetained ==
    LET N == agent_hist.calls
        C == agent_cfg.memory_capacity
    IN  /\ exp_replay.count = Min(N, C)
        /\ exp_replay.count <= C
        /\ exp_replay.cursor = N % C
        /\ Stored(exp_replay) = (N - Min(N, C))..(N - 1)

\* capacity 10 after 15 inserts: fill count 10, transitions 5..14 stored
C1_Witness ==
    /\ agent_cfg.memory_capacity = 10
    /\ agent_hist.calls = 15
    /\ exp_replay.count = 10
    /\ Stored(exp_replay) = 5..14

----------------------------------------------------------------------------
\* C2: hard update (tau = 1.0): immediately after the F-th, 2F-th, ... call of
\* DoubleDQNPolicy.update the target parameters equal the online parameters
\* as they are after that call's gradient step.
C2_HardUpdateCopies ==
    (/\ policy_hist.op = "update"
     /\ policy_cfg.tau = One
     /\ policy_hist.updates % policy_cfg.target_update_freq = 0)
    => target_network = network

\* the second boundary of a frequency-2 policy, reached with moved parameters
C2_Witness ==
    /\ policy_hist.op = "update"
    /\ policy_cfg.tau = One
    /\ policy_cfg.target_update_freq = 2
    /\ policy_hist.updates = 4
    /\ network = [i \in ParamIdx |-> RInt(2)]
    /\ target_network = network

\* C3: one call of soft_update_target with 0 < tau < 1 sets every target
\* parameter to tau*online + (1-tau)*old_target and leaves the online
\* parameters unchanged (online 2, old target 0, tau 1/2 give 1).
C3_SoftUpdateBlend ==
    [][(policy_hist'.op = "soft" /\ RLt(RInt(0), policy_cfg.tau)
                                /\ RLt(policy_cfg.tau, One))
       => /\ network' = network
          /\ \A i \in ParamIdx :
                /\ LET t == policy_cfg.tau
                       new == target_network'[i]
                   IN  new.n * t.d * network[i].d * target_network[i].d
                         = new.d * (t.n * network[i].n * target_network[i].d
                                    + (t.d - t.n) * target_network[i].n * network[i].d)
                /\ (policy_cfg.tau = Half /\ network[i] = RInt(2)
                                          /\ target_network[i] = RInt(0))
                   => target_network'[i] = RInt(1)]_vars

\* the spec's example on the first parameter, after the call
C3_Witness ==
    /\ policy_hist.op = "soft"
    /\ policy_cfg.tau = Half
    /\ network[1] = RInt(2)
    /\ target_network[1] = RInt(1)
    /\ network[2] = RInt(1)
    /\ target_network[2] = Rat(3, 2)

\* C4: target parameters change only in an update call whose ordinal is a
\* multiple of target_update_freq: every other update call (its gradient step
\* included) and every action selection leaves them unchanged, and without a
\* checkpoint the constructed policy has its target equal to the online network.
C4_TargetFrame ==
    [][/\ (~(policy_hist'.op = "update"
             /\ policy_hist'.updates % policy_cfg.target_update_freq = 0))
          => target_network' = target_network
       /\ (policy_hist.op = "init" /\ ~policy_cfg.ckpt) => target_network = network]_vars

\* an update off the boundary has moved the online network away from the target
C4_Witness ==
    /\ policy_hist.op = "update"
    /\ policy_cfg.target_update_freq = 3
    /\ policy_hist.updates = 4
    /\ ~policy_hist.fired
    /\ network # target_network

----------------------------------------------------------------------------
\* C6: after any sequence of add, sample and update_weight calls every
\* filled slot of the prioritized buffer has a priority of at least epsilon,
\* hence positive, also after a zero or a negative TD error.
C6_PriorityFloor ==
    IsPrb(dqn_cfg) =>
        \A i \in 0..(buffer.count - 1) :
            /\ RLe(PrioEpsilon, buffer.prio[i])
            /\ RLt(RInt(0), buffer.prio[i])

\* a zero and a negative TD error have been written back
C6_Witness ==
    /\ IsPrb(dqn_cfg)
    /\ dqn_hist.op = "update"
    /\ buffer.count = 2
    /\ dqn_hist.trace[3].indexes = <<0, 1>>
    /\ dqn_hist.trace[3].vals = <<RInt(0), RInt(-2)>>
    /\ buffer.prio[0] = PrioEpsilon
    /\ buffer.prio[1] = RAdd(RInt(2), PrioEpsilon)

\* C7: an update call on a prioritized buffer makes, in order, one sample, one
\* gradient step on the loss mean(td^2 * weight) with the batch's
\* importance-sampling weights, and one update_weight with that batch's indexes
\* and TD errors; on a uniform buffer it makes one sample and one step with all
\* weights 1 and no update_weight.
C7_UpdateProtocol ==
    dqn_hist.op = "update" =>
        LET t == dqn_hist.trace
            B == dqn_cfg.batch_size
        IN  /\ Len(t) = IF IsPrb(dqn_cfg) THEN 3 ELSE 2
            /\ t[1].op = "sample" /\ Len(t[1].indexes) = B
            /\ t[2].op = "step" /\ t[2].indexes = t[1].indexes
            /\ dqn_hist.loss =
                   RDiv(RSum([k \in 1..B |->
                          RMul(RMul(t[2].vals[k], t[2].vals[k]), t[2].weights[k])]),
                        RInt(B))
            /\ IsPrb(dqn_cfg) =>
                   /\ t[2].weights = t[1].weights
                   /\ t[3].op = "update_weight"
                   /\ t[3].indexes = t[1].indexes
                   /\ t[3].vals = t[2].vals
                   /\ \A k \in 1..B :
                         \E j \in 1..B :
                            /\ t[3].indexes[j] = t[3].indexes[k]
                            /\ buffer.prio[t[3].indexes[k]] =
                                  RAdd(RAbs(t[3].vals[j]), PrioEpsilon)
            /\ ~IsPrb(dqn_cfg) =>
                   /\ \A k \in 1..B : t[2].weights[k] = One
                   /\ \A k \in 1..Len(t) : t[k].op # "update_weight"

\* a second update on a prioritized buffer whose weights are not all 1
C7_Witness ==
    /\ IsPrb(dqn_cfg)
    /\ dqn_hist.op = "update"
    /\ dqn_hist.updates = 2
    /\ Len(dqn_hist.trace) = 3
    /\ dqn_hist.trace[2].weights[1] # One
    /\ dqn_hist.trace[3].vals = dqn_hist.trace[2].vals

----------------------------------------------------------------------------
\* C5: sample is invoked only when the fill count is at least batch_size, by
\* the agent's _do_learn and by DQNPolicy.update under the trainer; when the
\* check of _do_learn fails no gradient step is made and None is returned.
C5_SampleOnlyWhenFilled ==
    /\ (train_cfg.variant = "dqn" /\ dqn_hist.sample_fill # -1)
          => dqn_hist.sample_fill >= dqn_cfg.batch_size
    /\ agent_hist.sample_fill # -1 => agent_hist.sample_fill >= agent_cfg.batch_size
    /\ (agent_hist.ran /\ ~CanSample(exp_replay, agent_cfg.batch_size))
          => agent_hist.ret = "None"
    /\ agent_hist.learned = agent_hist.sampled

\* C8: no update is made during warmup; afterwards the phases follow one
\* another as collect, update, test, checkpoint, and policy.eps is the
\* scheduled collection eps while collecting, 0 while updating and eps_test
\* while testing.
C8_PhaseOrder ==
    /\ [](/\ pc = "warmup" => dqn_hist.updates = 0
          /\ dqn_hist.updates > 0 => dqn_hist.adds >= train_cfg.warmup_size
          /\ pc = "collect" =>
                eps = PrecollectEps(train_cfg.variant, epoch, dqn_hist.adds)
          /\ pc = "update" => eps = RInt(0)
          /\ pc = "test" => eps = EpsTest)
    /\ [][/\ pc' # pc =>
               <<pc, pc'>> \in {<<"warmup", "precollect">>, <<"precollect", "collect">>,
                                <<"collect", "preupdate">>, <<"preupdate", "update">>,
                                <<"update", "pretest">>, <<"update", "diverged">>,
                                <<"update", "failed">>, <<"pretest", "test">>,
                                <<"test", "save">>, <<"save", "precollect">>,
                                <<"save", "done">>, <<"save", "reached">>}
          /\ dqn_hist'.updates # dqn_hist.updates => pc = "update" /\ eps = RInt(0)
          /\ dqn_hist'.adds # dqn_hist.adds => pc \in {"warmup", "collect"}
          /\ rew' # rew => pc = "test" /\ eps = EpsTest]_vars

\* the update phase of the second epoch, exploration off, after the decayed
\* collection eps
C8_Witness ==
    /\ pc = "update"
    /\ epoch = 2
    /\ upd = 1
    /\ eps = RInt(0)
    /\ dqn_hist.updates = 3
    /\ train_cfg.variant = "double_dqn"

C10_BestRewardMonotonic ==
    [][/\ best_rew' >= best_rew
       /\ train_hist'.saves # train_hist.saves <=> (pc = "save" /\ rew > best_rew)
       /\ (pc = "save" /\ rew > best_rew) =>
             (best_rew' = rew /\ train_hist'.saves = train_hist.saves + 1)
       /\ (pc = "save" /\ rew <= best_rew) =>
             (best_rew' = best_rew /\ pc' # "reached")]_vars

\* a second test equal to the best reward has written nothing
C10_Witness ==
    /\ pc = "done"
    /\ rew = 0
    /\ best_rew = 0
    /\ train_hist.saves = 1

\* C11: the vanilla DQN target of a sampled transition is
\* reward + (1 - done) * gamma * max_a Q_online(next_obs, a), built from the
\* transition's reward and done fields; for a terminal transition it is the
\* reward alone.
C11_VanillaTarget ==
    qval_targ.op \in {"DQNPolicy.update", "_do_learn", "RawDQNAgent.learn"}
        => /\ qval_targ.val = RAdd(transition.rew, RMul(RMul(RInt(1 - transition.done), gamma), QMax(q_online)))
           /\ transition.done = 1 => qval_targ.val = transition.rew

\* C12: the double-DQN target is reward + (1 - done) * gamma * Q_target(next_obs, a*)
\* with a* an action maximising the online network's value at next_obs, and
\* computing it changes neither network.
C12_DoubleTarget ==
    /\ [](qval_targ.op = "compute_target_q"
            => \E a_star \in Actions :
                 /\ \A a \in Actions : RLe(q_online[a], q_online[a_star])
                 /\ qval_targ.val =
                        RAdd(transition.rew, RMul(RMul(RInt(1 - transition.done), gamma), q_target[a_star])))
    /\ [][q_online' = q_online /\ q_target' = q_target]_vars

\* a target where the target network's own maximum and the online network's
\* value at a* both differ from the value read
C12_Witness ==
    /\ qval_targ.op = "compute_target_q"
    /\ transition.done = 0
    /\ q_online = (0 :> RInt(2) @@ 1 :> RInt(1))
    /\ q_target = (0 :> RInt(0) @@ 1 :> RInt(1))
    /\ transition.rew = RInt(1)
    /\ gamma = Half
    /\ qval_targ.val = RInt(1)

\* C13: with step_per_learn = K every learn call adds exactly one transition,
\* _do_learn runs on exactly the K-th, 2K-th, ... calls and 0 <= learn_count < K
\* after every call; with target_update_freq = F, 0 <= update_count < F after
\* every update call and the target update fires on exactly every F-th call.
C13_PeriodicCounters ==
    /\ [](/\ learn_count >= 0 /\ learn_count < agent_cfg.step_per_learn
          /\ learn_count = agent_hist.calls % agent_cfg.step_per_learn
          /\ agent_hist.ran <=> (/\ agent_hist.calls > 0
                                 /\ agent_hist.calls % agent_cfg.step_per_learn = 0)
          /\ update_count >= 0 /\ update_count < policy_cfg.target_update_freq
          /\ update_count = policy_hist.updates % policy_cfg.target_update_freq
          /\ policy_hist.op = "update"
                => (policy_hist.fired
                      <=> policy_hist.updates % policy_cfg.target_update_freq = 0))
    /\ [][agent_hist'.calls # agent_hist.calls
            => /\ agent_hist'.calls = agent_hist.calls + 1
               /\ exp_replay'.cursor = (exp_replay.cursor + 1) % agent_cfg.memory_capacity
               /\ exp_replay'.count = Min(exp_replay.count + 1, agent_cfg.memory_capacity)
               /\ exp_replay'.data[exp_replay.cursor] = agent_hist.calls
               /\ \A i \in 0..(agent_cfg.memory_capacity - 1) :
                     i # exp_replay.cursor => exp_replay'.data[i] = exp_replay.data[i]]_vars

\* the sixth learn call with step_per_learn 3: _do_learn has just run for the
\* second time and the counter is back at 0
C13_Witness ==
    /\ agent_cfg.step_per_learn = 3
    /\ agent_cfg.batch_size = 1
    /\ agent_hist.calls = 6
    /\ agent_hist.ran
    /\ agent_hist.learned = 2
    /\ learn_count = 0

\* C14: after any sequence of reset and step calls the observation holds
\* exactly stack_num frames, oldest first, that are the stack_num most recently
\* captured frames, with empty frames standing in for frames not yet captured;
\* each reset or step drops the oldest frame and appends exactly one new
\* frame, and reset does not otherwise clear the stack.
C14_SlidingWindow ==
    /\ [](/\ Len(obs) = stack_num
          /\ \A i \in 1..stack_num :
                obs[i] = IF Len(frames) - stack_num + i >= 1
                         THEN frames[Len(frames) - stack_num + i]
                         ELSE EmptyFrame)
    /\ [][frames' # frames
            => /\ Len(frames') = Len(frames) + 1
               /\ \A i \in 1..Len(frames) : frames'[i] = frames[i]
               /\ \A i \in 1..(stack_num - 1) : obs'[i] = obs[i + 1]
               /\ obs'[stack_num] = frames'[Len(frames')]]_vars

\* a reset in the middle of a run: the stack still holds the frames captured
\* before it
C14_Witness ==
    /\ stack_num = 4
    /\ env_hist.op = "reset"
    /\ frames = <<1, 2, 1, 2, 1>>
    /\ obs = <<2, 1, 2, 1>>

\* C15: the exploration rate used for collection never drops below the
\* configured minimum: the eps set by either precollect hook is at least
\* eps_collect_min and the eps returned by NNQAgent.update_eps is at least
\* eps_min, for every epoch, step count and episode, when the initial eps is
\* at least the minimum.
C15_EpsFloor ==
    /\ eps_hist.op \in {"double_dqn.precollect", "dqn.precollect"}
          => RLe(eps_args.eps_collect_min, eps_hist.eps)
    /\ eps_hist.op = "update_eps" => RLe(nnq_agent.eps_min, eps_hist.eps)

====
